---- MODULE Spec2Model ----
(***************************************************************************)
(* Signal computation engine of the scanner: fractals, strokes (bi) and    *)
(* buy points (chan_core.py), chip distribution (chip_core.py), order-flow *)
(* estimators OFI and VPIN (micro_structure.py) and the composite scorer   *)
(* (strategy.py).  Every component is a pure function of an in-memory      *)
(* series; each specification below draws the series from a bounded set    *)
(* and applies the functions in the order their callers do.                *)
(*                                                                         *)
(* Conventions.  Sequences are 1-based here and 0-based in the source, so  *)
(* the row label k of the source is position k+1 of the model.  Dates are  *)
(* unique and increasing with the row label, so a row's date is            *)
(* represented by its label.  A float that the source computes by          *)
(* division is kept as an exact fraction <<numerator, denominator>>.       *)
(***************************************************************************)
EXTENDS Integers, Sequences, FiniteSets, TLC

VARIABLES
    pc,             \* position of the caller in the pipeline under study
    bars,           \* high/low columns of a daily frame: sequence of [high, low]
    types,          \* the frame's 'type' column: [present, col]
    bi_list,        \* strokes returned by get_bi_list
    current_price,  \* second argument of check_buys
    chan_res,       \* dict returned by check_buys
    ticks,          \* level-1 snapshots given to calculate_ofi_l1
    ofi,            \* its return value
    trades,         \* trade prints given to calculate_vpin
    bucket_volume,  \* its bucket_volume argument
    window_buckets, \* its window_buckets argument
    vpin,           \* its return value, a fraction
    df,             \* close/turnover columns of a daily frame: sequence of [close, turnover]
    valid_weights,  \* the local valid_weights of calculate_chip_distribution at its return
    chip_res,       \* dict returned by calculate_chip_distribution
    rsrs_score,     \* the standardised score the regressions of calculate_rsrs give
    calls,          \* the components analyze_daily has invoked, in order
    raised,         \* the exception that left analyze_daily or calculate_vpin, if any
    result,         \* dict returned by analyze_daily
    wave_res,       \* dict returned by check_wave_structure
    annotated,      \* 'type' column of the frame find_fractals returns for a typed frame
    daily_res,      \* second argument of analyze_intraday
    intraday_res,   \* dict returned by analyze_intraday
    history,        \* rows (by label) of the frame given to calculate_rsrs
    rsrs_n,         \* its regression period n
    rsrs_m,         \* its standardisation window m
    rsrs_fit,       \* the windows its rolling fit regresses and standardises over
    market,         \* per symbol, what get_stock_daily finds for it
    tasks,          \* per symbol, the run of process_worker_task submitted for it
    completed,      \* symbols whose future run_daily_scan has taken from as_completed
    scan_results    \* the list `results` of run_daily_scan

chanVars == <<bars, types, bi_list, current_price, chan_res>>
ofiVars == <<ticks, ofi>>
vpinVars == <<trades, bucket_volume, window_buckets, vpin>>
chipVars == <<df, valid_weights, chip_res>>
dailyVars == <<rsrs_score, calls, raised, result>>
waveVars == <<wave_res>>
refindVars == <<annotated>>
intradayVars == <<daily_res, intraday_res>>
rsrsVars == <<history, rsrs_n, rsrs_m, rsrs_fit>>
scanVars == <<market, tasks, completed, scan_results>>
nonScanVars == <<pc, chanVars, ofiVars, vpinVars, chipVars, dailyVars,
                 waveVars, refindVars, intradayVars, rsrsVars>>
otherVars == <<waveVars, refindVars, intradayVars, rsrsVars, scanVars>>
vars == <<pc, chanVars, ofiVars, vpinVars, chipVars, dailyVars, otherVars>>

\* Python's None, and a frame that has no 'type' column
None == <<>>
NoColumn == [present |-> FALSE, col |-> <<>>]

\* sequences of length 0..n over S
SeqsUpTo(S, n) == UNION { [1 .. k -> S] : k \in 0 .. n }

\* a numpy array: the sequence with every element computed
Array(f) == SubSeq(f, 1, Len(f))

\* the variables a specification does not use stay at these values
ChanIdle ==
    /\ bars = <<>> /\ types = NoColumn /\ bi_list = <<>>
    /\ current_price = None /\ chan_res = None
OfiIdle == ticks = <<>> /\ ofi = None
VpinIdle == trades = <<>> /\ bucket_volume = 0 /\ window_buckets = 0 /\ vpin = None
ChipIdle == df = <<>> /\ valid_weights = <<>> /\ chip_res = None
DailyIdle == rsrs_score = None /\ calls = <<>> /\ raised = None /\ result = None
WaveIdle == wave_res = None
RefindIdle == annotated = NoColumn
IntradayIdle == daily_res = None /\ intraday_res = None
RsrsIdle == history = <<>> /\ rsrs_n = 0 /\ rsrs_m = 0 /\ rsrs_fit = None
ScanIdle == market = <<>> /\ tasks = <<>> /\ completed = {} /\ scan_results = <<>>
OtherIdle == WaveIdle /\ RefindIdle /\ IntradayIdle /\ RsrsIdle /\ ScanIdle

\* ------------------------------------------------------------------ bounds
\* longest bar series given to find_fractals / get_bi_list
MaxBars == 7
\* longest stroke list given directly to check_buys
MaxStrokes == 4
\* longest typed series given to find_fractals again
MaxRefindBars == 4
\* longest snapshot window given to calculate_ofi_l1
MaxTicks == 3
\* longest trade sequence, largest trade volume, bucket volume and window
MaxTrades == 5
MaxVolume == 2
MaxBucketVolume == 3
MaxWindowBuckets == 2
\* number of last rows of a close/turnover frame that vary
MaxChipTail == 2
\* number of last rows of a daily frame that vary
MaxDailyTail == 1
\* number of last rows of a frame given to check_wave_structure that vary
MaxWaveTail == 2
\* longest trade sequence with volumes from 0
MaxAnyTrades == 4
\* symbols of the pool scanned, and worker processes of the executor
MaxTasks == 2
MaxWorkers == 2
\* longest series, largest period n and largest window m given to calculate_rsrs
MaxHistory == 14
MaxPeriod == 2
MaxStdWindow == 2

\* Bars of the series: flat bars at three levels and two ranged bars, enough
\* for same-type fractals of different extremity, for a bar that is Top and
\* Bottom at once, and for a Bottom whose low reaches an earlier Top's high.
BarShapes ==
    { [high |-> 2, low |-> 2], [high |-> 3, low |-> 3], [high |-> 4, low |-> 4],
      [high |-> 3, low |-> 1], [high |-> 4, low |-> 3] }
StrokePrices == 1 .. 2
TickPrices == 1 .. 2
TickVolumes == 1 .. 2
TradePrices == 1 .. 2
ChipPrices == 1 .. 2
\* turnover of a session, in percent
ChipTurnovers == {0, 50, 100}

\* ============================================================= chan_core
UP == 1
DOWN == -1

\* is_top = (highs[1:-1] > highs[:-2]) & (highs[1:-1] > highs[2:])
is_top(rows, i) ==
    /\ 1 < i /\ i < Len(rows)
    /\ rows[i].high > rows[i - 1].high
    /\ rows[i].high > rows[i + 1].high

\* is_bottom = (lows[1:-1] < lows[:-2]) & (lows[1:-1] < lows[2:])
is_bottom(rows, i) ==
    /\ 1 < i /\ i < Len(rows)
    /\ rows[i].low < rows[i - 1].low
    /\ rows[i].low < rows[i + 1].low

\* a find_fractals that writes the Bottoms first and the Tops over them
find_fractals_tops_last(rows) ==
    [i \in 1 .. Len(rows) |->
        IF is_top(rows, i) THEN 1 ELSE IF is_bottom(rows, i) THEN -1 ELSE 0]

\* df['type'] = 0, then 1 at top_indices, then -1 at bottom_indices
find_fractals(rows) ==
    LET zeroed == [i \in 1 .. Len(rows) |-> 0]
        tops == [i \in 1 .. Len(rows) |-> IF is_top(rows, i) THEN 1 ELSE zeroed[i]]
    IN [i \in 1 .. Len(rows) |-> IF is_bottom(rows, i) THEN -1 ELSE tops[i]]

\* a call that marks the copy without first resetting its 'type' column
find_fractals_call_no_reset(rows, ty) ==
    [caller |-> ty,
     returned |-> [present |-> TRUE,
                   col |-> [i \in 1 .. Len(rows) |->
                              IF is_bottom(rows, i) THEN -1
                              ELSE IF is_top(rows, i) THEN 1
                              ELSE IF ty.present THEN ty.col[i] ELSE 0]]]

\* A call of find_fractals on a frame whose 'type' column is ty (possibly
\* absent): the caller's column after the call and the returned frame's
\* column.  df = df.copy() leaves the caller's frame alone; df['type'] = 0
\* creates the column or overwrites whatever it carried.
find_fractals_call(rows, ty) ==
    [caller |-> ty,
     returned |-> [present |-> TRUE, col |-> find_fractals(rows)]]

\* the dict {'index', 'type', 'price'} of one row of `fractals`, wrapped in a
\* one-element sequence so that it compares with None
Fractal(rows, ty, i) ==
    << [index |-> i, type |-> ty[i],
        price |-> IF ty[i] = 1 THEN rows[i].high ELSE rows[i].low] >>

\* a loop body that forgets to move last_f after emitting a stroke
BiStepKeepsLast(st, f) ==
    IF st.last_f = None THEN [st EXCEPT !.last_f = f]
    ELSE IF st.last_f[1].type = f[1].type THEN st
    ELSE [st EXCEPT !.bi_list = Append(st.bi_list,
              [start_index |-> st.last_f[1].index, start_price |-> st.last_f[1].price,
               end_index |-> f[1].index, end_price |-> f[1].price,
               type |-> IF st.last_f[1].type = 1 THEN DOWN ELSE UP])]

\* one iteration of the loop of get_bi_list over the fractal f
BiStep(st, f) ==
    IF st.last_f = None THEN [st EXCEPT !.last_f = f]
    ELSE IF st.last_f[1].type = f[1].type THEN
        IF f[1].type = 1
        THEN (IF f[1].price > st.last_f[1].price THEN [st EXCEPT !.last_f = f] ELSE st)
        ELSE (IF f[1].price < st.last_f[1].price THEN [st EXCEPT !.last_f = f] ELSE st)
    ELSE [last_f |-> f,
          bi_list |-> Append(st.bi_list,
              [start_index |-> st.last_f[1].index, start_price |-> st.last_f[1].price,
               end_index |-> f[1].index, end_price |-> f[1].price,
               type |-> IF st.last_f[1].type = 1 THEN DOWN ELSE UP])]

\* fractals = df[df['type'] != 0]: the labels of the rows that are fractals
FractalRows(ty) ==
    SelectSeq(Array([i \in 1 .. Len(ty) |-> i]), LAMBDA i : ty[i] # 0)

\* for idx, row in fractals.iterrows(): last_f and bi_list after the first k
\* fractals
RECURSIVE BiScan(_, _, _, _)
BiScan(rows, ty, fractals, k) ==
    IF k = 0 THEN [last_f |-> None, bi_list |-> <<>>]
    ELSE BiStep(BiScan(rows, ty, fractals, k - 1), Fractal(rows, ty, fractals[k]))

get_bi_list(rows, ty) ==
    LET col == Array(IF ty.present THEN ty.col ELSE find_fractals(rows))
        fractals == FractalRows(col)
    IN BiScan(rows, col, fractals, Len(fractals)).bi_list

NoBuys == [buy1 |-> FALSE, buy2 |-> FALSE, buy3 |-> FALSE, desc |-> <<>>]

\* a check_buys whose second buy compares with the previous stroke's end
check_buys_prev_end(bl, price) ==
    IF Len(bl) < 4 THEN NoBuys
    ELSE LET last_bi == bl[Len(bl)]
             prev_bi == bl[Len(bl) - 1]
             prev_prev_bi == bl[Len(bl) - 2]
             b2 == last_bi.type = DOWN /\ last_bi.end_price > prev_bi.end_price
             b3 == last_bi.type = DOWN /\ last_bi.end_price > prev_prev_bi.start_price
         IN [buy1 |-> FALSE, buy2 |-> b2, buy3 |-> b3,
             desc |-> (IF b2 THEN << <<"Buy 2", last_bi.end_price, prev_bi.end_price>> >>
                       ELSE <<>>)
                      \o (IF b3 THEN << <<"Buy 3", last_bi.end_price, prev_prev_bi.start_price>> >>
                          ELSE <<>>)]

\* desc is the sequence of the sentences appended to res['desc'], each kept
\* as <<label, the two prices formatted into it>>
check_buys(bl, price) ==
    IF Len(bl) < 4 THEN NoBuys
    ELSE LET last_bi == bl[Len(bl)]
             prev_bi == bl[Len(bl) - 1]
             prev_prev_bi == bl[Len(bl) - 2]
             last_low == last_bi.end_price
             prev_low == prev_bi.start_price
             top1 == prev_prev_bi.start_price
             b2 == last_bi.type = DOWN /\ last_low > prev_low
             b3 == last_bi.type = DOWN /\ last_low > top1
         IN [buy1 |-> FALSE, buy2 |-> b2, buy3 |-> b3,
             desc |-> (IF b2 THEN << <<"Buy 2", last_low, prev_low>> >> ELSE <<>>)
                      \o (IF b3 THEN << <<"Buy 3", last_low, top1>> >> ELSE <<>>)]

\* ------------------------------------------------------------ SpecChan
\* strategy.py runs find_fractals, then get_bi_list on the annotated frame
InitChan ==
    /\ pc = "loaded"
    /\ bars \in SeqsUpTo(BarShapes, MaxBars)
    /\ types = NoColumn
    /\ bi_list = <<>>
    /\ current_price = None
    /\ chan_res = None
    /\ OfiIdle /\ VpinIdle /\ ChipIdle /\ DailyIdle /\ OtherIdle

FindFractals ==
    /\ pc = "loaded"
    /\ types' = [present |-> TRUE, col |-> find_fractals(bars)]
    /\ pc' = "annotated"
    /\ UNCHANGED <<bars, bi_list, current_price, chan_res, ofiVars, vpinVars, chipVars, dailyVars, otherVars>>

GetBiList ==
    /\ pc = "annotated"
    /\ bi_list' = get_bi_list(bars, types)
    /\ pc' = "strokes"
    /\ UNCHANGED <<bars, types, current_price, chan_res, ofiVars, vpinVars, chipVars, dailyVars, otherVars>>

NextChan == FindFractals \/ GetBiList

SpecChan == InitChan /\ [][NextChan]_vars

\* ---------------------------------------------------------- SpecRefind
\* find_fractals on a frame that already carries a 'type' column
TypeValues == {-1, 0, 1}

InitRefind ==
    /\ pc = "typed"
    /\ bars \in SeqsUpTo(BarShapes, MaxRefindBars)
    /\ types \in {NoColumn}
                 \cup { [present |-> TRUE, col |-> c] : c \in [1 .. Len(bars) -> TypeValues] }
    /\ annotated = NoColumn
    /\ bi_list = <<>> /\ current_price = None /\ chan_res = None
    /\ OfiIdle /\ VpinIdle /\ ChipIdle /\ DailyIdle
    /\ WaveIdle /\ IntradayIdle /\ RsrsIdle /\ ScanIdle

FindFractalsAgain ==
    /\ pc = "typed"
    /\ \E r \in {find_fractals_call(bars, types)} :
        types' = r.caller /\ annotated' = r.returned
    /\ pc' = "retyped"
    /\ UNCHANGED <<bars, bi_list, current_price, chan_res, ofiVars, vpinVars, chipVars,
                   dailyVars, waveVars, intradayVars, rsrsVars, scanVars>>

NextRefind == FindFractalsAgain

SpecRefind == InitRefind /\ [][NextRefind]_vars

\* ------------------------------------------------------------ SpecBuys
\* check_buys on any stroke list (it reads type, start_price and end_price)
StrokeShapes == [type : {UP, DOWN}, start_price : StrokePrices, end_price : StrokePrices]

InitBuys ==
    /\ pc = "strokes"
    /\ bars = <<>> /\ types = NoColumn
    /\ bi_list \in SeqsUpTo(StrokeShapes, MaxStrokes)
    /\ current_price = None
    /\ chan_res = None
    /\ OfiIdle /\ VpinIdle /\ ChipIdle /\ DailyIdle /\ OtherIdle

CheckBuys ==
    /\ pc = "strokes"
    /\ \E p \in StrokePrices :
        /\ current_price' = p
        /\ chan_res' = check_buys(bi_list, p)
    /\ pc' = "classified"
    /\ UNCHANGED <<bars, types, bi_list, ofiVars, vpinVars, chipVars, dailyVars, otherVars>>

NextBuys == CheckBuys

SpecBuys == InitBuys /\ [][NextBuys]_vars

\* ======================================================= micro_structure
RECURSIVE SumSeq(_)
SumSeq(a) == IF a = <<>> THEN 0 ELSE a[1] + SumSeq(Tail(a))

\* np.roll(a, 1): every element moves one place right, the last comes first
Roll(a) == [i \in 1 .. Len(a) |-> IF i = 1 THEN a[Len(a)] ELSE a[i - 1]]

\* b_p_prev = np.roll(b_p, 1); b_p_prev[0] = b_p[0]
Shifted(a) == [Roll(a) EXCEPT ![1] = a[1]]

\* e_b = np.where(p > p_prev, q, np.where(p == p_prev, q - q_prev, -q_prev)); e_b[0] = 0
BidFlow(p, q) ==
    LET p_prev == Shifted(p)
        q_prev == Shifted(q)
        e == [i \in 1 .. Len(p) |->
                IF p[i] > p_prev[i] THEN q[i]
                ELSE IF p[i] = p_prev[i] THEN q[i] - q_prev[i] ELSE 0 - q_prev[i]]
    IN [e EXCEPT ![1] = 0]

\* an ask side that takes the bid side's comparison
AskFlowAsBid(p, q) == BidFlow(p, q)

\* e_a = np.where(p < p_prev, q, np.where(p == p_prev, q - q_prev, -q_prev)); e_a[0] = 0
AskFlow(p, q) ==
    LET p_prev == Shifted(p)
        q_prev == Shifted(q)
        e == [i \in 1 .. Len(p) |->
                IF p[i] < p_prev[i] THEN q[i]
                ELSE IF p[i] = p_prev[i] THEN q[i] - q_prev[i] ELSE 0 - q_prev[i]]
    IN [e EXCEPT ![1] = 0]

calculate_ofi_l1(tk) ==
    IF Len(tk) < 2 THEN 0
    ELSE LET e_b == BidFlow([i \in 1 .. Len(tk) |-> tk[i].bid1_price],
                            [i \in 1 .. Len(tk) |-> tk[i].bid1_volume])
             e_a == AskFlow([i \in 1 .. Len(tk) |-> tk[i].ask1_price],
                            [i \in 1 .. Len(tk) |-> tk[i].ask1_volume])
         IN SumSeq([i \in 1 .. Len(tk) |-> e_b[i] - e_a[i]])

\* signs = np.sign(price.diff()).replace(0, nan).ffill().fillna(0): the sign of
\* the last price change that was not zero, 0 while there has been none
RECURSIVE TickSign(_, _)
TickSign(tr, i) ==
    IF i = 1 THEN 0
    ELSE IF tr[i].price > tr[i - 1].price THEN 1
    ELSE IF tr[i].price < tr[i - 1].price THEN -1
    ELSE TickSign(tr, i - 1)

\* a classification that counts an unclassified trade as a buy (signs >= 0)
BuyVolNeutralBuys(tr, i) == IF TickSign(tr, i) >= 0 THEN tr[i].volume ELSE 0

\* np.where(signs > 0, volume, 0) and np.where(signs < 0, volume, 0)
BuyVol(tr, i) == IF TickSign(tr, i) > 0 THEN tr[i].volume ELSE 0
SellVol(tr, i) == IF TickSign(tr, i) < 0 THEN tr[i].volume ELSE 0

\* trades['volume'].cumsum()
RECURSIVE CumVol(_, _)
CumVol(tr, i) == IF i = 0 THEN 0 ELSE CumVol(tr, i - 1) + tr[i].volume

\* (cum_vol // bucket_volume).astype(int)
BucketOf(tr, bv, i) == CumVol(tr, i) \div bv

\* the index of bucket_stats: the bucket ids that occur
BucketIds(tr, bv) == { BucketOf(tr, bv, i) : i \in 1 .. Len(tr) }

\* groupby('bucket').agg(sum) of the column col, for bucket b
RECURSIVE BucketSum(_, _, _, _, _)
BucketSum(col, tr, bv, b, i) ==
    IF i = 0 THEN 0
    ELSE BucketSum(col, tr, bv, b, i - 1)
         + (IF BucketOf(tr, bv, i) = b THEN col[i] ELSE 0)

BuyCol(tr) == [i \in 1 .. Len(tr) |-> BuyVol(tr, i)]
SellCol(tr) == [i \in 1 .. Len(tr) |-> SellVol(tr, i)]

Abs(x) == IF x < 0 THEN 0 - x ELSE x

\* bucket_stats['OI'] and bucket_stats['Total'] of bucket b
BucketOI(tr, bv, b) ==
    Abs(BucketSum(BuyCol(tr), tr, bv, b, Len(tr)) - BucketSum(SellCol(tr), tr, bv, b, Len(tr)))
\* a bucket total that leaves the sell volume out
BucketTotalBuysOnly(tr, bv, b) ==
    BucketSum(BuyCol(tr), tr, bv, b, Len(tr))

BucketTotal(tr, bv, b) ==
    BucketSum(BuyCol(tr), tr, bv, b, Len(tr)) + BucketSum(SellCol(tr), tr, bv, b, Len(tr))

\* bucket_stats.tail(n): the n last rows, the index being sorted by groupby
TailBuckets(ids, n) == { b \in ids : Cardinality({ c \in ids : c > b }) < n }

\* Series.sum() of the function f over the rows S
RECURSIVE SumOver(_, _)
SumOver(S, f) ==
    IF S = {} THEN 0
    ELSE LET x == CHOOSE y \in S : TRUE IN f[x] + SumOver(S \ {x}, f)

\* a guard that lets one bucket fewer than the window through
EnoughBucketsOffByOne(ids, wb) == Cardinality(ids) >= wb - 1

\* not (len(bucket_stats) < window_buckets)
EnoughBuckets(ids, wb) == Cardinality(ids) >= wb

calculate_vpin(tr, bv, wb) ==
    IF tr = <<>> THEN <<0, 1>>
    ELSE LET ids == BucketIds(tr, bv)
             recent == TailBuckets(ids, wb)
             recent_oi_sum == SumOver(recent, [b \in recent |-> BucketOI(tr, bv, b)])
             total_vol == SumOver(recent, [b \in recent |-> BucketTotal(tr, bv, b)])
         IN IF ~EnoughBuckets(ids, wb) THEN <<0, 1>>
            ELSE IF total_vol = 0 THEN <<0, 1>>
            ELSE <<recent_oi_sum, total_vol>>

\* A call of calculate_vpin with any bucket_volume >= 0.  With bucket_volume 0
\* and trades present, cum_vol // bucket_volume is inf or NaN in every row and
\* astype(int) raises; nothing is returned.
calculate_vpin_call(tr, bv, wb) ==
    IF tr # <<>> /\ bv = 0
    THEN [raised |-> <<"IntCastingNaNError", "bucket">>, returned |-> None]
    ELSE [raised |-> None, returned |-> calculate_vpin(tr, bv, wb)]

\* ------------------------------------------------------------- SpecOfi
TickShapes ==
    [bid1_price : TickPrices, bid1_volume : TickVolumes,
     ask1_price : TickPrices, ask1_volume : TickVolumes]

InitOfi ==
    /\ pc = "ticks"
    /\ ticks \in SeqsUpTo(TickShapes, MaxTicks)
    /\ ofi = None
    /\ ChanIdle /\ VpinIdle /\ ChipIdle /\ DailyIdle /\ OtherIdle

CalculateOfi ==
    /\ pc = "ticks"
    /\ ofi' = calculate_ofi_l1(ticks)
    /\ pc' = "ofi"
    /\ UNCHANGED <<ticks, chanVars, vpinVars, chipVars, dailyVars, otherVars>>

NextOfi == CalculateOfi

SpecOfi == InitOfi /\ [][NextOfi]_vars

\* ------------------------------------------------------------ SpecVpin
TradeShapes == [price : TradePrices, volume : 1 .. MaxVolume]

InitVpin ==
    /\ pc = "trades"
    /\ trades \in SeqsUpTo(TradeShapes, MaxTrades)
    /\ bucket_volume \in 1 .. MaxBucketVolume
    /\ window_buckets \in 1 .. MaxWindowBuckets
    /\ vpin = None
    /\ ChanIdle /\ OfiIdle /\ ChipIdle /\ DailyIdle /\ OtherIdle

CalculateVpin ==
    /\ pc = "trades"
    /\ vpin' = calculate_vpin(trades, bucket_volume, window_buckets)
    /\ pc' = "vpin"
    /\ UNCHANGED <<trades, bucket_volume, window_buckets, chanVars, ofiVars, chipVars, dailyVars, otherVars>>

NextVpin == CalculateVpin

SpecVpin == InitVpin /\ [][NextVpin]_vars

\* ---------------------------------------------------------- SpecVpinAny
\* trades of any non-negative volume, any bucket volume and any window
AnyVolumes == {0, 1, 2}
AnyTradeShapes == [price : TradePrices, volume : AnyVolumes]

InitVpinAny ==
    /\ pc = "prints"
    /\ trades \in SeqsUpTo(AnyTradeShapes, MaxAnyTrades)
    /\ bucket_volume \in 0 .. MaxBucketVolume
    /\ window_buckets \in 0 .. MaxWindowBuckets
    /\ vpin = None
    /\ rsrs_score = None /\ calls = <<>> /\ raised = None /\ result = None
    /\ ChanIdle /\ OfiIdle /\ ChipIdle /\ OtherIdle

CalculateVpinAny ==
    /\ pc = "prints"
    /\ \E r \in {calculate_vpin_call(trades, bucket_volume, window_buckets)} :
        vpin' = r.returned /\ raised' = r.raised
    /\ pc' = "vpin"
    /\ UNCHANGED <<trades, bucket_volume, window_buckets, rsrs_score, calls, result,
                   chanVars, ofiVars, chipVars, otherVars>>

SpecVpinAny == InitVpinAny /\ [][CalculateVpinAny]_vars

\* ============================================================= chip_core
\* if len(df) < 100
ChipMinBars == 100
\* history_len = min(len(df), 300)
ChipHistory == 300


RECURSIVE GCD(_, _)
GCD(a, b) == IF b = 0 THEN a ELSE GCD(b, a % b)

\* the fraction n/d (d > 0) in lowest terms
Frac(n, d) == IF n = 0 THEN <<0, 1>> ELSE LET g == GCD(Abs(n), d) IN <<n \div g, d \div g>>
FMul(a, b) == Frac(a[1] * b[1], a[2] * b[2])
FAdd(a, b) == Frac(a[1] * b[2] + b[1] * a[2], a[2] * b[2])
FSub(a, b) == Frac(a[1] * b[2] - b[1] * a[2], a[2] * b[2])
FLess(a, b) == a[1] * b[2] < b[1] * a[2]
Min(a, b) == IF a < b THEN a ELSE b

\* np.clip(x, 0.0, 1.0)
Clip01(x) == IF x[1] < 0 THEN <<0, 1>> ELSE IF x[1] > x[2] THEN <<1, 1>> ELSE x

\* np.cumprod(retention[::-1])[::-1] of the rows lo..hi (the range is halved
\* to keep the recursion shallow: the left half is completed by the product
\* of the right half)
RECURSIVE SuffixProd(_, _, _)
SuffixProd(retention, lo, hi) ==
    IF lo > hi THEN <<>>
    ELSE IF lo = hi THEN <<retention[lo]>>
    ELSE LET join(left, right) ==
                 Array([k \in 1 .. Len(left) |-> FMul(left[k], right[1])]) \o right
         IN join(SuffixProd(retention, lo, (lo + hi) \div 2),
                 SuffixProd(retention, (lo + hi) \div 2 + 1, hi))

\* valid_weights before normalisation
RawWeights(turnover) ==
    LET n == Len(turnover)
        retention == Array([i \in 1 .. n |-> Clip01(FSub(<<1, 1>>, turnover[i]))])
        weights(suffix_prod) ==
            Array([i \in 1 .. n |->
                      IF i < n THEN FMul(turnover[i], suffix_prod[i + 1])
                      ELSE turnover[n]])
    IN weights(SuffixProd(retention, 1, n))

\* np.sum of the rows lo..hi
RECURSIVE FSum(_, _, _)
FSum(w, lo, hi) ==
    IF lo > hi THEN <<0, 1>>
    ELSE IF lo = hi THEN w[lo]
    ELSE FAdd(FSum(w, lo, (lo + hi) \div 2), FSum(w, (lo + hi) \div 2 + 1, hi))

\* a normalisation that divides by the window length
NormalizeByLength(w) ==
    Array([i \in 1 .. Len(w) |-> Frac(w[i][1], w[i][2] * Len(w))])

\* current_sum = np.sum(valid_weights); if current_sum > 0: valid_weights /= current_sum
Normalize(w) ==
    LET divided(current_sum) ==
            IF current_sum[1] > 0
            THEN Array([i \in 1 .. Len(w) |->
                           Frac(w[i][1] * current_sum[2], w[i][2] * current_sum[1])])
            ELSE w
    IN divided(FSum(w, 1, Len(w)))

\* np.argsort(recent_prices): the rows by ascending price (rows of equal
\* price are interchangeable for what is read from the sorted arrays)
RECURSIVE ArgSort(_, _)
ArgSort(prices, levels) ==
    IF levels = {} THEN <<>>
    ELSE LET lo == CHOOSE x \in levels : \A y \in levels : x <= y
         IN SelectSeq(Array([i \in 1 .. Len(prices) |-> i]), LAMBDA i : prices[i] = lo)
            \o ArgSort(prices, levels \ {lo})

\* np.cumsum of the rows lo..hi (halved likewise: the right half is
\* completed by the sum of the left half)
RECURSIVE CumSum(_, _, _)
CumSum(w, lo, hi) ==
    IF lo > hi THEN <<>>
    ELSE IF lo = hi THEN <<w[lo]>>
    ELSE LET join(left, right) ==
                 left \o Array([k \in 1 .. Len(right) |-> FAdd(left[Len(left)], right[k])])
         IN join(CumSum(w, lo, (lo + hi) \div 2), CumSum(w, (lo + hi) \div 2 + 1, hi))

\* np.searchsorted(cum, v), side='left': bisection for the number of rows
\* that are < v, between lo and hi rows
RECURSIVE SearchSorted(_, _, _, _)
SearchSorted(cum, v, lo, hi) ==
    IF lo >= hi THEN lo
    ELSE IF FLess(cum[(lo + hi) \div 2 + 1], v)
         THEN SearchSorted(cum, v, (lo + hi) \div 2 + 1, hi)
         ELSE SearchSorted(cum, v, lo, (lo + hi) \div 2)

\* turnover[-history_len:], turnover being df['turnover'] / 100.0 * decay_factor
recent_turnover(frame, decay_factor) ==
    LET history_len == Min(Len(frame), ChipHistory)
        recent == SubSeq(frame, Len(frame) - history_len + 1, Len(frame))
    IN Array([i \in 1 .. history_len |->
                 FMul(Frac(recent[i].turnover, 100), decay_factor)])

\* valid_weights at the return of calculate_chip_distribution (no weights
\* are computed for a frame shorter than ChipMinBars)
chip_weights(frame, decay_factor) ==
    IF Len(frame) < ChipMinBars THEN <<>>
    ELSE Normalize(RawWeights(recent_turnover(frame, decay_factor)))

calculate_chip_distribution(frame, decay_factor) ==
    IF Len(frame) < ChipMinBars
    THEN [profit_ratio |-> <<0, 1>>, avg_cost |-> <<0, 1>>, concentration_90 |-> <<1, 1>>]
    ELSE LET history_len == Min(Len(frame), ChipHistory)
             price_now == frame[Len(frame)].close
             returned(profit_ratio, avg_cost, p05, p95) ==
                 [profit_ratio |-> profit_ratio,
                  avg_cost |-> avg_cost,
                  concentration |-> Frac((p95 - p05) * 2, p05 + p95),
                  cost95 |-> p95,
                  cost05 |-> p05]
             percentile(sorted_prices, cum_weights, q) ==
                 sorted_prices[Min(SearchSorted(cum_weights, q, 0, history_len),
                                   history_len - 1) + 1]
             sorted(recent_prices, w, sorted_indices) ==
                 LET spread(sorted_prices, cum_weights) ==
                         returned(
                             FSum(Array([i \in 1 .. history_len |->
                                     IF recent_prices[i] < price_now THEN w[i]
                                     ELSE <<0, 1>>]), 1, history_len),
                             FSum(Array([i \in 1 .. history_len |->
                                     Frac(recent_prices[i] * w[i][1], w[i][2])]),
                                  1, history_len),
                             percentile(sorted_prices, cum_weights, <<5, 100>>),
                             percentile(sorted_prices, cum_weights, <<95, 100>>))
                 IN spread(Array([k \in 1 .. history_len |-> recent_prices[sorted_indices[k]]]),
                           CumSum(Array([k \in 1 .. history_len |-> w[sorted_indices[k]]]),
                                  1, history_len))
             weighted(recent_prices, w) ==
                 sorted(recent_prices, w,
                        ArgSort(recent_prices, { recent_prices[i] : i \in 1 .. history_len }))
         IN weighted(Array([i \in 1 .. history_len |->
                               frame[Len(frame) - history_len + i].close]),
                     chip_weights(frame, decay_factor))

\* ------------------------------------------------------------- SpecChip
ChipShapes == [close : ChipPrices, turnover : ChipTurnovers]
\* a session in which nothing was traded
QuietRow == [close |-> 1, turnover |-> 0]

\* a frame of n rows: a first row, quiet sessions, and the last rows `tail`
ChipFrame(n, first, tail) ==
    [i \in 1 .. n |->
        IF i > n - Len(tail) THEN tail[i - (n - Len(tail))]
        ELSE IF i = 1 THEN first ELSE QuietRow]

\* one short of the minimum, the minimum, and one more than the window
ChipLengths == {ChipMinBars - 1, ChipMinBars, ChipHistory + 1}

InitChip ==
    /\ pc = "frame"
    /\ \E n \in ChipLengths, first \in ChipShapes, tail \in SeqsUpTo(ChipShapes, MaxChipTail) :
        df = ChipFrame(n, first, tail)
    /\ valid_weights = <<>>
    /\ chip_res = None
    /\ ChanIdle /\ OfiIdle /\ VpinIdle /\ DailyIdle /\ OtherIdle

\* strategy.py calls it with the default decay_factor = 1.0
CalculateChipDistribution ==
    /\ pc = "frame"
    /\ chip_res' = calculate_chip_distribution(df, <<1, 1>>)
    /\ valid_weights' = chip_weights(df, <<1, 1>>)
    /\ pc' = "chips"
    /\ UNCHANGED <<df, chanVars, ofiVars, vpinVars, dailyVars, otherVars>>

NextChip == CalculateChipDistribution

SpecChip == InitChip /\ [][NextChip]_vars

\* ============================================================ rsrs_core
RsrsPeriod == 18

\* The dict returned by calculate_rsrs, as far as analyze_daily reads it.  A
\* frame shorter than n + 1 rows gets the neutral dict; otherwise the score is
\* what the rolling regressions (statsmodels) and the standardisation give,
\* here the value `score`.
calculate_rsrs(rows, score) ==
    IF Len(rows) < RsrsPeriod + 1 THEN [rsrs_score |-> <<0, 1>>]
    ELSE [rsrs_score |-> score]

\* rows kept beyond m + n by the truncation
RsrsMargin == 10

\* a truncation that keeps the last m rows only
limit_window_to_m(rows, n, m) ==
    IF Len(rows) > m THEN SubSeq(rows, Len(rows) - m + 1, Len(rows)) ELSE rows

\* highs = highs[-(m + n + 10):] when the series is longer than that
limit_window(rows, n, m) ==
    IF Len(rows) > m + n + RsrsMargin
    THEN SubSeq(rows, Len(rows) - (m + n + RsrsMargin) + 1, Len(rows))
    ELSE rows

\* the windows highs[i : i+n], lows[i : i+n] for i in range(len(highs) - n + 1),
\* one regression (one entry of betas and of r2s) each
rolling_windows(rows, n) ==
    [i \in 1 .. (IF Len(rows) - n + 1 > 0 THEN Len(rows) - n + 1 ELSE 0) |->
        SubSeq(rows, i, i + n - 1)]

\* betas[-m:]; the slice [-0:] is the whole list
recent_betas(betas, m) ==
    IF m = 0 \/ m >= Len(betas) THEN betas
    ELSE SubSeq(betas, Len(betas) - m + 1, Len(betas))

\* What the result is computed from once the rows are fixed: the window of the
\* latest beta and r2, and the windows whose betas are standardised over.  The
\* neutral dict (too few rows, or no window) has neither.
rolling_fit(rows, n, m) ==
    LET fit(betas) ==
            IF betas = <<>> THEN [latest |-> <<>>, recent |-> <<>>]
            ELSE [latest |-> betas[Len(betas)], recent |-> recent_betas(betas, m)]
    IN fit(rolling_windows(rows, n))

\* calculate_rsrs with period n and standardisation window m
calculate_rsrs_nm(rows, n, m) ==
    IF Len(rows) < n + 1 THEN [latest |-> <<>>, recent |-> <<>>]
    ELSE rolling_fit(limit_window(rows, n, m), n, m)

\* ============================================================ wave_core
WaveMinBars == 50
WaveWindow == 50
AoFast == 5
AoSlow == 34

\* sum of high + low (twice the median price) over the rows lo..hi
RECURSIVE MedianSum(_, _, _)
MedianSum(rows, lo, hi) ==
    IF lo > hi THEN 0
    ELSE rows[hi].high + rows[hi].low + MedianSum(rows, lo, hi - 1)

\* df['ao'] at row i, defined once the slow window is full
ao(rows, i) ==
    FSub(Frac(MedianSum(rows, i - AoFast + 1, i), 2 * AoFast),
         Frac(MedianSum(rows, i - AoSlow + 1, i), 2 * AoSlow))

\* Series.max() of a column of fractions (NaN rows are not in S)
FMax(S) == CHOOSE x \in S : \A y \in S : ~FLess(x, y)

IntMax(S) == CHOOSE x \in S : \A y \in S : y <= x

\* a check_wave_structure whose wave-3 test asks for a positive oscillator only
check_wave_structure_any_positive(rows, frame) ==
    IF Len(rows) < WaveMinBars
    THEN [status |-> "Unknown", desc |-> <<"Not enough data">>]
    ELSE LET n == Len(rows)
             recent_window == { i \in 1 .. n : i > n - WaveWindow }
             res(is_wave3, divergence) ==
                 [status |-> IF is_wave3 THEN "Bullish" ELSE "Neutral",
                  desc |-> (IF is_wave3 THEN <<"Strong AO Momentum (Potential Wave 3). ">>
                            ELSE <<>>)
                           \o (IF divergence
                               THEN <<"Bearish Divergence (Price High but AO Weak). ">>
                               ELSE <<>>),
                  is_wave3 |-> is_wave3,
                  divergence |-> divergence]
             checked(last_ao, max_ao, price_max, curr_price) ==
                 res(FLess(<<0, 1>>, last_ao),
                     /\ ~FLess(Frac(curr_price, 1), FMul(Frac(price_max, 1), <<98, 100>>))
                     /\ FLess(last_ao, FMul(max_ao, <<7, 10>>))
                     /\ FLess(<<0, 1>>, last_ao))
         IN checked(ao(rows, n),
                    FMax({ ao(rows, i) : i \in { j \in recent_window : j >= AoSlow } }),
                    IntMax({ frame[i].close : i \in recent_window }),
                    frame[n].close)

check_wave_structure(rows, frame) ==
    IF Len(rows) < WaveMinBars
    THEN [status |-> "Unknown", desc |-> <<"Not enough data">>]
    ELSE LET n == Len(rows)
             recent_window == { i \in 1 .. n : i > n - WaveWindow }
             res(is_wave3, divergence) ==
                 [status |-> IF is_wave3 THEN "Bullish" ELSE "Neutral",
                  desc |-> (IF is_wave3 THEN <<"Strong AO Momentum (Potential Wave 3). ">>
                            ELSE <<>>)
                           \o (IF divergence
                               THEN <<"Bearish Divergence (Price High but AO Weak). ">>
                               ELSE <<>>),
                  is_wave3 |-> is_wave3,
                  divergence |-> divergence]
             checked(last_ao, max_ao, price_max, curr_price) ==
                 res(FLess(<<0, 1>>, last_ao) /\ FLess(FMul(max_ao, <<8, 10>>), last_ao),
                     /\ ~FLess(Frac(curr_price, 1), FMul(Frac(price_max, 1), <<98, 100>>))
                     /\ FLess(last_ao, FMul(max_ao, <<7, 10>>))
                     /\ FLess(<<0, 1>>, last_ao))
         IN checked(ao(rows, n),
                    FMax({ ao(rows, i) : i \in { j \in recent_window : j >= AoSlow } }),
                    IntMax({ frame[i].close : i \in recent_window }),
                    frame[n].close)

\* ============================================================== strategy
DailyMinBars == 60
MaShort == 20
MaLong == 60

\* sum of close over the last k rows
RECURSIVE CloseSum(_, _)
CloseSum(frame, k) ==
    IF k = 0 THEN 0 ELSE frame[Len(frame) - k + 1].close + CloseSum(frame, k - 1)

\* a guard that lets through every frame the wave component accepts
InsufficientDataBelowWave(frame) == Len(frame) = 0 \/ Len(frame) < WaveMinBars

\* if df.empty or len(df) < 60
InsufficientData(frame) == Len(frame) = 0 \/ Len(frame) < DailyMinBars

\* d[key] on a dict that may lack the key
Raise(done, key) == [calls |-> done, raised |-> <<"KeyError", key>>, result |-> None]

\* a scorer whose trend filter never adds its points
daily_points_no_trend(rsrs, chip, chan, wave, ma20, ma60) ==
    (IF FLess(<<7, 10>>, rsrs.rsrs_score) THEN 30
     ELSE IF FLess(rsrs.rsrs_score, <<-7, 10>>) THEN -30 ELSE 0)
    + (IF FLess(<<9, 10>>, chip.profit_ratio) THEN 20
       ELSE IF FLess(<<5, 10>>, chip.profit_ratio) THEN 10 ELSE 0)
    + (IF FLess(chip.concentration, <<15, 100>>) THEN 10 ELSE 0)
    + (IF chan.buy2 THEN 25 ELSE 0)
    + (IF chan.buy3 THEN 30 ELSE 0)
    + (IF wave.is_wave3 THEN 15 ELSE 0)
    + (IF wave.divergence THEN -20 ELSE 0)

\* result['score'] at the return of analyze_daily: 0, then what each section
\* adds to or takes from it
daily_points(rsrs, chip, chan, wave, ma20, ma60) ==
    (IF FLess(<<7, 10>>, rsrs.rsrs_score) THEN 30
     ELSE IF FLess(rsrs.rsrs_score, <<-7, 10>>) THEN -30 ELSE 0)
    + (IF FLess(<<9, 10>>, chip.profit_ratio) THEN 20
       ELSE IF FLess(<<5, 10>>, chip.profit_ratio) THEN 10 ELSE 0)
    + (IF FLess(chip.concentration, <<15, 100>>) THEN 10 ELSE 0)
    + (IF chan.buy2 THEN 25 ELSE 0)
    + (IF chan.buy3 THEN 30 ELSE 0)
    + (IF wave.is_wave3 THEN 15 ELSE 0)
    + (IF wave.divergence THEN -20 ELSE 0)
    + (IF FLess(ma60, ma20) THEN 5 ELSE 0)

\* result['details'] at the return of analyze_daily: each entry is <<text>> or
\* <<text, formatted value>>
daily_details(rsrs, chip, chan, wave) ==
    (IF FLess(<<7, 10>>, rsrs.rsrs_score)
     THEN << <<"RSRS Strong", rsrs.rsrs_score>> >>
     ELSE IF FLess(rsrs.rsrs_score, <<-7, 10>>)
     THEN << <<"RSRS Weak", rsrs.rsrs_score>> >>
     ELSE <<>>)
    \o (IF FLess(<<9, 10>>, chip.profit_ratio)
        THEN << <<"Chip: High Profit Ratio (>90%)">> >> ELSE <<>>)
    \o (IF FLess(chip.concentration, <<15, 100>>)
        THEN << <<"Chip: Highly Concentrated">> >> ELSE <<>>)
    \o (IF chan.buy2 THEN << <<"Chan: Buy 2 Point">> >> ELSE <<>>)
    \o (IF chan.buy3 THEN << <<"Chan: Buy 3 Point (Strong Breakout)">> >> ELSE <<>>)
    \o (IF wave.is_wave3 THEN << <<"Wave: Potential Wave 3">> >> ELSE <<>>)
    \o (IF wave.divergence THEN << <<"Wave: Bearish Divergence (Risk)">> >> ELSE <<>>)

\* The body of analyze_daily past its guard, given what each component
\* returns for the frame (a component is invoked only when its result is
\* first read): n rows, last close, the dicts of calculate_rsrs,
\* calculate_chip_distribution, check_buys and check_wave_structure, and the
\* two rolling means.
score_daily(n, close, rsrs, chip, chan, wave, ma20, ma60) ==
    LET c1 == <<"calculate_rsrs">>
        c2 == c1 \o <<"calculate_chip_distribution">>
        c5 == c2 \o <<"find_fractals", "get_bi_list", "check_buys", "check_wave_structure">>
    IN
    IF "rsrs_score" \notin DOMAIN rsrs THEN Raise(c1, "rsrs_score")
    ELSE IF "profit_ratio" \notin DOMAIN chip THEN Raise(c2, "profit_ratio")
    ELSE IF "concentration" \notin DOMAIN chip THEN Raise(c2, "concentration")
    ELSE IF "is_wave3" \notin DOMAIN wave THEN Raise(c5, "is_wave3")
    ELSE IF "divergence" \notin DOMAIN wave THEN Raise(c5, "divergence")
    ELSE [calls |-> c5, raised |-> None,
          result |-> <<[symbol |-> "", date |-> n, close |-> close,
                        signal_buy |-> chan.buy2 \/ chan.buy3,
                        score |-> daily_points(rsrs, chip, chan, wave, ma20, ma60),
                        details |-> daily_details(rsrs, chip, chan, wave),
                        rsrs |-> rsrs.rsrs_score, chip_profit |-> chip.profit_ratio]>>]

\* What a call of analyze_daily does on the frame whose high/low columns are
\* `rows` and whose close/turnover columns are `frame`: the components it
\* invokes, the exception that leaves it (None if none) and the dict it returns
\* (None if it raises), wrapped in a one-element sequence.
analyze_daily(rows, frame, score) ==
    IF InsufficientData(frame)
    THEN [calls |-> <<>>, raised |-> None,
          result |-> <<[signal |-> FALSE, reason |-> "Insufficient Data"]>>]
    ELSE score_daily(Len(frame), frame[Len(frame)].close,
                     calculate_rsrs(rows, score),
                     calculate_chip_distribution(frame, <<1, 1>>),
                     check_buys(get_bi_list(rows, [present |-> TRUE,
                                                   col |-> find_fractals(rows)]),
                                frame[Len(frame)].close),
                     check_wave_structure(rows, frame),
                     Frac(CloseSum(frame, MaShort), MaShort),
                     Frac(CloseSum(frame, MaLong), MaLong))

\* ------------------------------------------------------------ SpecDaily
\* scores on both sides of the two thresholds of analyze_daily
RsrsScores == { <<-4, 5>>, <<0, 1>>, <<7, 10>>, <<4, 5>> }
FlatBar == [high |-> 2, low |-> 2]

\* high/low columns of n rows: flat sessions, then the last rows `tail`
DailyBars(n, tail) ==
    [i \in 1 .. n |-> IF i > n - Len(tail) THEN tail[i - (n - Len(tail))] ELSE FlatBar]

\* a session whose high and low are both x
Flat(x) == [high |-> x, low |-> x]

\* Last rows that make the pattern components fire: four strokes ending in a
\* Down stroke whose low is above the previous low and the first top (second
\* and third buy), above the previous low only (second buy), below it (no
\* buy); and a surge that has faded (oscillator positive but far below its
\* window maximum).
DailyBarPatterns ==
    { <<Flat(1), Flat(3), Flat(2), Flat(6), Flat(4), Flat(5)>>,
      <<Flat(1), Flat(3), Flat(2), Flat(6), Flat(3), Flat(5)>>,
      <<Flat(1), Flat(3), Flat(2), Flat(6), Flat(1), Flat(5)>>,
      <<Flat(9), Flat(9), Flat(9), Flat(2), Flat(2), Flat(3)>> }

\* Last rows that put three quarters of the chips, all of them, and a third
\* of them below the last close.
DailyChipPatterns ==
    { << [close |-> 1, turnover |-> 100], [close |-> 2, turnover |-> 50],
         [close |-> 1, turnover |-> 50], [close |-> 2, turnover |-> 0] >>,
      << [close |-> 1, turnover |-> 100], [close |-> 2, turnover |-> 0] >>,
      << [close |-> 1, turnover |-> 50], [close |-> 2, turnover |-> 50] >> }

\* the empty frame, and one row either side of the scorer's and of the chip
\* component's minimum
DailyLengths == {0, DailyMinBars - 1, DailyMinBars, ChipMinBars - 1, ChipMinBars}

InitDaily ==
    /\ pc = "daily"
    /\ \E n \in DailyLengths,
          btail \in SeqsUpTo(BarShapes, MaxDailyTail) \cup DailyBarPatterns,
          ctail \in SeqsUpTo(ChipShapes, MaxDailyTail) \cup DailyChipPatterns :
        /\ Len(btail) <= n /\ Len(ctail) <= n
        /\ bars = DailyBars(n, btail)
        /\ df = ChipFrame(n, QuietRow, ctail)
    /\ rsrs_score \in RsrsScores
    /\ types = NoColumn /\ bi_list = <<>> /\ current_price = None /\ chan_res = None
    /\ valid_weights = <<>> /\ chip_res = None
    /\ calls = <<>> /\ raised = None /\ result = None
    /\ OfiIdle /\ VpinIdle /\ OtherIdle

AnalyzeDaily ==
    /\ pc = "daily"
    /\ \E r \in {analyze_daily(bars, df, rsrs_score)} :
        calls' = r.calls /\ raised' = r.raised /\ result' = r.result
    /\ pc' = "analyzed"
    /\ UNCHANGED <<chanVars, ofiVars, vpinVars, chipVars, rsrs_score, otherVars>>

NextDaily == AnalyzeDaily

SpecDaily == InitDaily /\ [][NextDaily]_vars

\* ---------------------------------------------------------- SpecIntraday
\* an analyze_intraday that confirms on a non-negative OFI
analyze_intraday_confirms_zero(tk, daily) ==
    LET built(ofi_val) ==
            [confirmed |-> ofi_val >= 0, vpin |-> 0, ofi |-> ofi_val,
             details |-> IF ofi_val >= 0
                         THEN << <<"OFI Positive - Buying Pressure", ofi_val>> >>
                         ELSE << <<"OFI Negative - Selling Pressure", ofi_val>> >>]
    IN built(calculate_ofi_l1(tk))

\* the dict analyze_intraday returns; each entry of 'details' is
\* <<text, formatted value>>
analyze_intraday(tk, daily) ==
    LET built(ofi_val) ==
            [confirmed |-> ofi_val > 0, vpin |-> 0, ofi |-> ofi_val,
             details |-> IF ofi_val > 0
                         THEN << <<"OFI Positive - Buying Pressure", ofi_val>> >>
                         ELSE << <<"OFI Negative - Selling Pressure", ofi_val>> >>]
    IN built(calculate_ofi_l1(tk))

\* Stage 1 results handed to analyze_intraday: none, an insufficient-data
\* result, a scored result
DailyResults ==
    { None,
      <<[signal |-> FALSE, reason |-> "Insufficient Data"]>>,
      <<[signal_buy |-> TRUE, score |-> 55]>> }

InitIntraday ==
    /\ pc = "snapshots"
    /\ ticks \in SeqsUpTo(TickShapes, MaxTicks)
    /\ ofi = None
    /\ daily_res \in DailyResults
    /\ intraday_res = None
    /\ ChanIdle /\ VpinIdle /\ ChipIdle /\ DailyIdle
    /\ WaveIdle /\ RefindIdle /\ RsrsIdle /\ ScanIdle

AnalyzeIntraday ==
    /\ pc = "snapshots"
    /\ intraday_res' = <<analyze_intraday(ticks, daily_res)>>
    /\ pc' = "intraday"
    /\ UNCHANGED <<daily_res, chanVars, ofiVars, vpinVars, chipVars, dailyVars,
                   waveVars, refindVars, rsrsVars, scanVars>>

NextIntraday == AnalyzeIntraday

SpecIntraday == InitIntraday /\ [][NextIntraday]_vars

\* -------------------------------------------------------------- SpecWave
\* levels of the flat sessions a series starts with
WaveBases == {2, 3}

\* high/low columns of n rows: flat sessions at `base`, then the last rows `tail`
WaveBars(n, base, tail) ==
    [i \in 1 .. n |-> IF i > n - Len(tail) THEN tail[i - (n - Len(tail))] ELSE Flat(base)]

\* Last rows: after flat sessions at 3, a surge whose latest oscillator value
\* is exactly 80% of the window maximum, and the same surge faded to exactly
\* 70% of it; after flat sessions at 2, a surge at exactly 80% of the maximum,
\* one still at its maximum, and one faded well below 70%.
WaveBarPatterns ==
    { <<Flat(23), Flat(1), Flat(1)>>,
      <<Flat(23), Flat(1), Flat(1), Flat(1)>>,
      <<Flat(3), Flat(6), Flat(1)>>,
      <<Flat(3), Flat(4), Flat(6)>>,
      <<Flat(9), Flat(9), Flat(9), Flat(2), Flat(2), Flat(3)>> }

\* Last closes: at the window maximum, and 2.5% and 1% below it
WaveClosePatterns ==
    { << [close |-> 40, turnover |-> 50], [close |-> 39, turnover |-> 50] >>,
      << [close |-> 100, turnover |-> 50], [close |-> 99, turnover |-> 50] >> }

\* one short of the minimum, the minimum (the window is the whole frame), and
\* a frame longer than the window
WaveLengths == {WaveMinBars - 1, WaveMinBars, WaveMinBars + 1}

InitWave ==
    /\ pc = "series"
    /\ \E n \in WaveLengths, base \in WaveBases,
          btail \in SeqsUpTo(BarShapes, MaxWaveTail) \cup WaveBarPatterns,
          ctail \in SeqsUpTo(ChipShapes, MaxDailyTail) \cup WaveClosePatterns :
        /\ bars = WaveBars(n, base, btail)
        /\ df = ChipFrame(n, QuietRow, ctail)
    /\ types = NoColumn /\ bi_list = <<>> /\ current_price = None /\ chan_res = None
    /\ valid_weights = <<>> /\ chip_res = None
    /\ wave_res = None
    /\ OfiIdle /\ VpinIdle /\ DailyIdle
    /\ RefindIdle /\ IntradayIdle /\ RsrsIdle /\ ScanIdle

CheckWaveStructure ==
    /\ pc = "series"
    /\ wave_res' = <<check_wave_structure(bars, df)>>
    /\ pc' = "waved"
    /\ UNCHANGED <<chanVars, ofiVars, vpinVars, chipVars, dailyVars,
                   refindVars, intradayVars, rsrsVars, scanVars>>

NextWave == CheckWaveStructure

SpecWave == InitWave /\ [][NextWave]_vars

\* -------------------------------------------------------------- SpecRsrs
\* a series is its rows by label: row k stands for (high, low) of session k
InitRsrs ==
    /\ pc = "history"
    /\ \E len \in 0 .. MaxHistory : history = [k \in 1 .. len |-> k]
    /\ rsrs_n \in 1 .. MaxPeriod
    /\ rsrs_m \in 0 .. MaxStdWindow
    /\ rsrs_fit = None
    /\ ChanIdle /\ OfiIdle /\ VpinIdle /\ ChipIdle /\ DailyIdle
    /\ WaveIdle /\ RefindIdle /\ IntradayIdle /\ ScanIdle

CalculateRsrs ==
    /\ pc = "history"
    /\ rsrs_fit' = <<calculate_rsrs_nm(history, rsrs_n, rsrs_m)>>
    /\ pc' = "fitted"
    /\ UNCHANGED <<history, rsrs_n, rsrs_m, chanVars, ofiVars, vpinVars, chipVars,
                   dailyVars, waveVars, refindVars, intradayVars, scanVars>>

SpecRsrs == InitRsrs /\ [][CalculateRsrs]_vars

\* ========================================================== main_scanner
\* the first MaxTasks symbols of the test-mode stock pool
Symbols ==
    { <<"sh.600519", "sz.000858", "sz.000001", "sh.601318", "sz.300059">>[i] :
        i \in 1 .. MaxTasks }

\* What get_stock_daily does for a symbol: it raises, it returns an empty
\* frame, or it returns a frame of `rows` sessions (one short of the scorer's
\* minimum, the minimum, the chip component's minimum).
Feeds ==
    { [kind |-> "raises", rows |-> 0], [kind |-> "empty", rows |-> 0] }
        \cup [kind : {"frame"}, rows : {DailyMinBars - 1, DailyMinBars, ChipMinBars}]

\* res['symbol'] = symbol
set_symbol(res, symbol) ==
    [k \in DOMAIN res \cup {"symbol"} |-> IF k = "symbol" THEN symbol ELSE res[k]]

\* a worker in which an exception raised inside the try block leaves the task
exception_propagates(t, e) ==
    [t EXCEPT !.pc = "returned", !.e = e, !.propagated = TRUE]

\* an exception raised inside the try block: control goes to the handler
\* `except Exception as e`
exception_caught(t, e) == [t EXCEPT !.pc = "except", !.e = e]

\* executor.submit for every symbol of the pool
InitScan ==
    /\ pc = "scanning"
    /\ market \in [Symbols -> Feeds]
    /\ tasks = [s \in Symbols |->
                  [pc |-> "submitted", logins |-> 0, logouts |-> 0, df |-> None,
                   res |-> None, e |-> None, ret |-> None, propagated |-> FALSE]]
    /\ completed = {}
    /\ scan_results = <<>>
    /\ ChanIdle /\ OfiIdle /\ VpinIdle /\ ChipIdle /\ DailyIdle
    /\ WaveIdle /\ RefindIdle /\ IntradayIdle /\ RsrsIdle

\* a free worker process takes the task and runs lg = bs.login()
TaskLogin(s) ==
    /\ pc = "scanning" /\ tasks[s].pc = "submitted"
    /\ Cardinality({ t \in Symbols : tasks[t].pc \notin {"submitted", "returned"} }) < MaxWorkers
    /\ tasks' = [tasks EXCEPT ![s].pc = "logged_in", ![s].logins = @ + 1]
    /\ UNCHANGED <<market, completed, scan_results, nonScanVars>>

\* df = DataLoader.get_stock_daily(symbol, start_date, end_date)
TaskGetStockDaily(s) ==
    /\ pc = "scanning" /\ tasks[s].pc = "logged_in"
    /\ tasks' = [tasks EXCEPT ![s] =
                   IF market[s].kind = "raises"
                   THEN exception_caught(@, <<"Exception", "get_stock_daily">>)
                   ELSE [@ EXCEPT !.pc = "loaded", !.df = <<market[s]>>]]
    /\ UNCHANGED <<market, completed, scan_results, nonScanVars>>

\* if df.empty: bs.logout(); return None
TaskEmpty(s) ==
    /\ pc = "scanning" /\ tasks[s].pc = "loaded"
    /\ tasks[s].df[1].kind = "empty"
    /\ tasks' = [tasks EXCEPT ![s].pc = "returned", ![s].logouts = @ + 1, ![s].ret = None]
    /\ UNCHANGED <<market, completed, scan_results, nonScanVars>>

\* res = Strategy.analyze_daily(df); if res: res['symbol'] = symbol
TaskAnalyzeDaily(s) ==
    /\ pc = "scanning" /\ tasks[s].pc = "loaded"
    /\ tasks[s].df[1].kind = "frame"
    /\ \E r \in { analyze_daily(DailyBars(tasks[s].df[1].rows, <<>>),
                                ChipFrame(tasks[s].df[1].rows, QuietRow, <<>>),
                                <<0, 1>>) } :
        tasks' = [tasks EXCEPT ![s] =
                    IF r.raised # None THEN exception_caught(@, r.raised)
                    ELSE [@ EXCEPT !.pc = "analyzed",
                                   !.res = <<set_symbol(r.result[1], s)>>]]
    /\ UNCHANGED <<market, completed, scan_results, nonScanVars>>

\* bs.logout(); return res
TaskReturn(s) ==
    /\ pc = "scanning" /\ tasks[s].pc = "analyzed"
    /\ tasks' = [tasks EXCEPT ![s].pc = "returned", ![s].logouts = @ + 1,
                              ![s].ret = tasks[s].res]
    /\ UNCHANGED <<market, completed, scan_results, nonScanVars>>

\* except Exception as e: bs.logout(); return None
TaskExcept(s) ==
    /\ pc = "scanning" /\ tasks[s].pc = "except"
    /\ tasks' = [tasks EXCEPT ![s].pc = "returned", ![s].logouts = @ + 1, ![s].ret = None]
    /\ UNCHANGED <<market, completed, scan_results, nonScanVars>>

\* one iteration of `for future in as_completed(future_to_stock)`:
\* res = future.result(); if res: results.append(res); an exception of the
\* task is printed
AsCompleted(s) ==
    /\ pc = "scanning" /\ tasks[s].pc = "returned"
    /\ s \notin completed
    /\ completed' = completed \cup {s}
    /\ scan_results' = IF ~tasks[s].propagated /\ tasks[s].ret # None
                       THEN Append(scan_results, tasks[s].ret[1])
                       ELSE scan_results
    /\ UNCHANGED <<market, tasks, nonScanVars>>

NextScan ==
    \E s \in Symbols :
        \/ TaskLogin(s) \/ TaskGetStockDaily(s) \/ TaskEmpty(s) \/ TaskAnalyzeDaily(s)
        \/ TaskReturn(s) \/ TaskExcept(s) \/ AsCompleted(s)

SpecScan == InitScan /\ [][NextScan]_vars

\* ================================================================ claims
\* --------------------------------------------------------------- SpecChan
\* C1: in the list returned by get_bi_list any two consecutive strokes have
\* opposite directions
C1_StrokesAlternate ==
    pc = "strokes" =>
        \A k \in 1 .. Len(bi_list) - 1 : bi_list[k].type # bi_list[k + 1].type

\* consecutive strokes were built, and a same-type fractal was merged between
C1_Witness ==
    /\ pc = "strokes"
    /\ Len(bi_list) >= 2
    /\ \E k \in 1 .. Len(bi_list) - 1 : bi_list[k + 1].start_index # bi_list[k].end_index

\* the rows that are an end point of some stroke
StrokeEndpoints ==
    { bi_list[k].start_index : k \in 1 .. Len(bi_list) }
        \cup { bi_list[k].end_index : k \in 1 .. Len(bi_list) }

\* C4 (as claimed): of two fractals of the same type with no fractal of the
\* opposite type between them at most one is an end point of a stroke, and
\* every stroke starts at the fractal (row and price) at which the preceding
\* stroke ended
C4_StrokesConnected ==
    pc = "strokes" =>
        /\ \A i, j \in 1 .. Len(bars) :
            ( /\ i < j
              /\ types.col[i] # 0
              /\ types.col[i] = types.col[j]
              /\ \A m \in i + 1 .. j - 1 : types.col[m] \in {0, types.col[i]} )
            => ~(i \in StrokeEndpoints /\ j \in StrokeEndpoints)
        /\ \A k \in 1 .. Len(bi_list) - 1 :
            /\ bi_list[k + 1].start_index = bi_list[k].end_index
            /\ bi_list[k + 1].start_price = bi_list[k].end_price

\* the 3-bar conditions of the claim, written on the bars themselves
InteriorRow(i) == 1 < i /\ i < Len(bars)
TopCondition(i) ==
    InteriorRow(i) /\ bars[i].high > bars[i - 1].high /\ bars[i].high > bars[i + 1].high
BottomCondition(i) ==
    InteriorRow(i) /\ bars[i].low < bars[i - 1].low /\ bars[i].low < bars[i + 1].low

\* C7 (as claimed): a bar is typed Top exactly when it is interior and
\* satisfies the Top condition, Bottom exactly when it is interior and
\* satisfies the Bottom condition
C7_Original ==
    pc = "annotated" =>
        /\ Len(types.col) = Len(bars)
        /\ \A i \in 1 .. Len(bars) :
            /\ types.col[i] = 1 <=> TopCondition(i)
            /\ types.col[i] = -1 <=> BottomCondition(i)

\* C7 (amended): a bar is typed Bottom exactly when it is interior and
\* satisfies the Bottom condition, Top exactly when it is interior, satisfies
\* the Top condition and does not satisfy the Bottom condition; every other
\* bar (the first, the last, all bars of a series shorter than 3) is untyped
C7_FractalTypes ==
    pc = "annotated" =>
        /\ Len(types.col) = Len(bars)
        /\ \A i \in 1 .. Len(bars) :
            /\ types.col[i] \in {-1, 0, 1}
            /\ types.col[i] = -1 <=> BottomCondition(i)
            /\ types.col[i] = 1 <=> (TopCondition(i) /\ ~BottomCondition(i))
            /\ (i = 1 \/ i = Len(bars)) => types.col[i] = 0

\* an annotated series with a Top, and a bar that meets both conditions
C7_Witness ==
    /\ pc = "annotated"
    /\ \E i \in 1 .. Len(bars) : types.col[i] = 1
    /\ \E i \in 1 .. Len(bars) :
        TopCondition(i) /\ BottomCondition(i) /\ types.col[i] = -1

\* --------------------------------------------------------------- SpecBuys
\* C8: check_buys equals the reference: fewer than 4 strokes give all false
\* and an empty desc; otherwise buy2 iff the last stroke is Down and ends
\* above the start of the second-to-last, buy3 iff it is Down and ends above
\* the start of the third-to-last, buy1 false, desc names 'Buy 2' iff buy2
\* and 'Buy 3' iff buy3, and current_price does not change the result
C8_BuyPoints ==
    pc = "classified" =>
        LET n == Len(bi_list)
            labels == { chan_res.desc[k][1] : k \in 1 .. Len(chan_res.desc) }
        IN /\ chan_res.buy1 = FALSE
           /\ n < 4 => (~chan_res.buy2 /\ ~chan_res.buy3 /\ chan_res.desc = <<>>)
           /\ n >= 4 =>
                /\ chan_res.buy2 <=>
                    (bi_list[n].type = DOWN
                        /\ bi_list[n].end_price > bi_list[n - 1].start_price)
                /\ chan_res.buy3 <=>
                    (bi_list[n].type = DOWN
                        /\ bi_list[n].end_price > bi_list[n - 2].start_price)
           /\ "Buy 2" \in labels <=> chan_res.buy2
           /\ "Buy 3" \in labels <=> chan_res.buy3
           /\ \A p \in StrokePrices : check_buys(bi_list, p) = chan_res

\* four alternating strokes whose last, Down, ends above the start of the Up
\* stroke before it but not above the start of the Down stroke before that
C8_Witness ==
    /\ pc = "classified"
    /\ Len(bi_list) = 4
    /\ \A k \in 1 .. 3 : bi_list[k].type # bi_list[k + 1].type
    /\ chan_res.buy2 /\ ~chan_res.buy3

\* ---------------------------------------------------------------- SpecOfi
\* the flows of the claim at step t > 1, written on the snapshots themselves
C10_BidFlow(t) ==
    IF ticks[t].bid1_price > ticks[t - 1].bid1_price THEN ticks[t].bid1_volume
    ELSE IF ticks[t].bid1_price = ticks[t - 1].bid1_price
         THEN ticks[t].bid1_volume - ticks[t - 1].bid1_volume
    ELSE 0 - ticks[t - 1].bid1_volume
C10_AskFlow(t) ==
    IF ticks[t].ask1_price < ticks[t - 1].ask1_price THEN ticks[t].ask1_volume
    ELSE IF ticks[t].ask1_price = ticks[t - 1].ask1_price
         THEN ticks[t].ask1_volume - ticks[t - 1].ask1_volume
    ELSE 0 - ticks[t - 1].ask1_volume
RECURSIVE C10_SumSteps(_)
C10_SumSteps(t) ==
    IF t < 2 THEN 0 ELSE C10_SumSteps(t - 1) + (C10_BidFlow(t) - C10_AskFlow(t))

\* C10: calculate_ofi_l1 is the sum over the steps t > 0 of e_b - e_a; the
\* first row contributes 0, fewer than 2 rows give 0, and a window of
\* identical rows gives 0
C10_OfiSum ==
    pc = "ofi" =>
        /\ ofi = C10_SumSteps(Len(ticks))
        /\ Len(ticks) < 2 => ofi = 0
        /\ (\A t \in 1 .. Len(ticks) : ticks[t] = ticks[1]) => ofi = 0

\* three snapshots, the ask falling and then rising, with a nonzero result
C10_Witness ==
    /\ pc = "ofi"
    /\ Len(ticks) = 3
    /\ ticks[2].ask1_price < ticks[1].ask1_price
    /\ ticks[3].ask1_price > ticks[2].ask1_price
    /\ ofi # 0

\* --------------------------------------------------------------- SpecVpin
TotalVolume == CumVol(trades, Len(trades))

\* C3 (as claimed): calculate_vpin returns 0 whenever the total volume is
\* less than window_buckets * bucket_volume
C3_Original ==
    pc = "vpin" =>
        (TotalVolume < window_buckets * bucket_volume => vpin[1] = 0)

\* C3 (amended): calculate_vpin returns 0 whenever the trades fall into
\* fewer than window_buckets buckets, in particular whenever the total volume
\* is less than (window_buckets - 1) * bucket_volume
C3_FewBucketsGiveZero ==
    pc = "vpin" =>
        /\ Cardinality({ CumVol(trades, i) \div bucket_volume : i \in 1 .. Len(trades) })
                < window_buckets => vpin[1] = 0
        /\ TotalVolume < (window_buckets - 1) * bucket_volume => vpin[1] = 0

\* trades of both directions whose volume stays below the amended threshold
C3_Witness ==
    /\ pc = "vpin"
    /\ Len(trades) >= 2
    /\ \E i \in 2 .. Len(trades) : trades[i].price > trades[i - 1].price
    /\ TotalVolume < (window_buckets - 1) * bucket_volume
    /\ vpin[1] = 0

\* prices alternate strictly up and down; all trades have the same volume
AlternatingPrices ==
    /\ \A i \in 2 .. Len(trades) : trades[i].price # trades[i - 1].price
    /\ \A i \in 3 .. Len(trades) :
        (trades[i].price > trades[i - 1].price) <=> (trades[i - 1].price < trades[i - 2].price)
EqualVolumes == \A i \in 1 .. Len(trades) : trades[i].volume = trades[1].volume
EnoughBucketsExist ==
    /\ trades # <<>>
    /\ Cardinality(BucketIds(trades, bucket_volume)) >= window_buckets

\* C9 (as claimed): for alternating prices and equal volumes VPIN is near 0
\* (here: below 1/2) for every bucket_volume and window_buckets with enough
\* buckets
C9_Original ==
    (pc = "vpin" /\ AlternatingPrices /\ EqualVolumes /\ EnoughBucketsExist)
        => 2 * vpin[1] < vpin[2]

\* the buckets of the trailing window that hold an odd number of trades
\* after the first (the first trade has no direction)
C9_OddBuckets ==
    { b \in TailBuckets(BucketIds(trades, bucket_volume), window_buckets) :
        Cardinality({ i \in 2 .. Len(trades) :
                        CumVol(trades, i) \div bucket_volume = b }) % 2 = 1 }

\* C9 (amended): for alternating prices and equal volumes v the imbalance of
\* a bucket is 0 when it holds an even number of classified trades and v
\* when it holds an odd number, so VPIN is 0 exactly when every bucket of the
\* trailing window holds an even number of classified trades
C9_BalancedWhenEven ==
    (pc = "vpin" /\ AlternatingPrices /\ EqualVolumes /\ EnoughBucketsExist)
        => /\ vpin[1] = trades[1].volume * Cardinality(C9_OddBuckets)
           /\ vpin[1] = 0 <=> C9_OddBuckets = {}

\* two full buckets of two classified trades each: VPIN is 0 out of 4 v
C9_Witness ==
    /\ pc = "vpin" /\ AlternatingPrices /\ EqualVolumes /\ EnoughBucketsExist
    /\ Len(trades) = 5
    /\ window_buckets = 2
    /\ vpin[1] = 0
    /\ vpin[2] = 4 * trades[1].volume

\* --------------------------------------------------------------- SpecChip
\* np.sum(valid_weights) before the normalisation, for the frame in df
RawWeightTotal == FSum(RawWeights(recent_turnover(df, <<1, 1>>)), 1, Min(Len(df), ChipHistory))

InUnitInterval(x) == 0 <= x[1] /\ x[1] <= x[2]

\* C5: for a frame of at least 100 rows whose turnover is within 0..100 and
\* whose window has a nonzero total raw weight, the weights sum to 1, every
\* weight is in [0,1], and profit_ratio is in [0,1]
C5_WeightsNormalised ==
    (/\ pc = "chips"
     /\ Len(df) >= ChipMinBars
     /\ \A i \in 1 .. Len(df) : df[i].turnover \in 0 .. 100
     /\ RawWeightTotal # <<0, 1>>)
    => /\ Len(valid_weights) = Min(Len(df), ChipHistory)
       /\ FSum(valid_weights, 1, Len(valid_weights)) = <<1, 1>>
       /\ \A i \in 1 .. Len(valid_weights) : InUnitInterval(valid_weights[i])
       /\ InUnitInterval(chip_res.profit_ratio)

\* a frame longer than the window, whose raw total is neither 0 nor 1, with
\* part of the weight in profit
C5_Witness ==
    /\ pc = "chips"
    /\ Len(df) > ChipHistory
    /\ RawWeightTotal \notin {<<0, 1>>, <<1, 1>>}
    /\ FSum(valid_weights, 1, Len(valid_weights)) = <<1, 1>>
    /\ chip_res.profit_ratio \notin {<<0, 1>>, <<1, 1>>}

\* -------------------------------------------------------------- SpecDaily
\* C2: on a frame of at least 60 rows analyze_daily raises nothing and
\* returns a dict that carries score and signal_buy
C2_DailyCompletes ==
    (pc = "analyzed" /\ Len(df) >= DailyMinBars)
    => /\ raised = None
       /\ result # None
       /\ {"score", "signal_buy"} \subseteq DOMAIN result[1]

\* C6: on an empty frame or one of fewer than 60 rows analyze_daily invokes
\* no component and returns a dict with the reason 'Insufficient Data' and
\* neither score nor signal_buy
C6_InsufficientData ==
    (pc = "analyzed" /\ Len(df) < DailyMinBars)
    => /\ calls = <<>>
       /\ raised = None
       /\ result # None
       /\ "reason" \in DOMAIN result[1]
       /\ result[1].reason = "Insufficient Data"
       /\ "score" \notin DOMAIN result[1]
       /\ "signal_buy" \notin DOMAIN result[1]

\* a frame one row short of the minimum has been analysed
C6_Witness ==
    /\ pc = "analyzed"
    /\ Len(df) = DailyMinBars - 1
    /\ calls = <<>>
    /\ result = <<[signal |-> FALSE, reason |-> "Insufficient Data"]>>

\* the components' results for the frame held in bars and df
DailyChan == check_buys(get_bi_list(bars, NoColumn), df[Len(df)].close)
DailyWave == check_wave_structure(bars, df)
DailyChip == calculate_chip_distribution(df, <<1, 1>>)
DailyTrendUp == FLess(Frac(CloseSum(df, MaLong), MaLong), Frac(CloseSum(df, MaShort), MaShort))

\* the sum of the contributions as the claim lists them
C11_Contributions(score_rsrs, chip, chan, wave, trend_up) ==
    (IF FLess(<<7, 10>>, score_rsrs) THEN 30 ELSE 0)
    + (IF FLess(score_rsrs, <<-7, 10>>) THEN -30 ELSE 0)
    + (IF FLess(<<9, 10>>, chip.profit_ratio) THEN 20
       ELSE IF FLess(<<1, 2>>, chip.profit_ratio) /\ ~FLess(<<9, 10>>, chip.profit_ratio)
       THEN 10 ELSE 0)
    + (IF FLess(chip.concentration, <<15, 100>>) THEN 10 ELSE 0)
    + (IF chan.buy2 THEN 25 ELSE 0)
    + (IF chan.buy3 THEN 30 ELSE 0)
    + (IF wave.is_wave3 THEN 15 ELSE 0)
    + (IF wave.divergence THEN -20 ELSE 0)
    + (IF trend_up THEN 5 ELSE 0)

\* C11: on a frame on which every component has enough rows (100 or more)
\* the returned score is the sum of the contributions that fire, and
\* signal_buy is true exactly when the second or the third buy fired
C11_ScoreIsSum ==
    (pc = "analyzed" /\ Len(df) >= ChipMinBars)
    => /\ raised = None
       /\ result # None
       /\ result[1].score
            = C11_Contributions(rsrs_score, DailyChip, DailyChan, DailyWave, DailyTrendUp)
       /\ result[1].signal_buy <=> (DailyChan.buy2 \/ DailyChan.buy3)

\* every positive contribution fires at once
C11_Witness ==
    /\ pc = "analyzed"
    /\ Len(df) >= ChipMinBars
    /\ result # None
    /\ result[1].score = 30 + 20 + 10 + 25 + 30 + 15 + 5
    /\ result[1].signal_buy

\* ------------------------------------------------------------- SpecRefind
\* C12: find_fractals on a frame that carries any 'type' column returns the
\* annotation it returns for the untyped frame, returns that same annotation
\* again when given its own output, and leaves the caller's frame as it was
C12_Idempotent ==
    [][pc = "typed" =>
        /\ annotated' = find_fractals_call(bars, NoColumn).returned
        /\ find_fractals_call(bars', annotated').returned = annotated'
        /\ types' = types
        /\ bars' = bars]_vars

\* a frame with fractals whose carried column differed from the annotation
C12_Witness ==
    /\ pc = "retyped"
    /\ types.present
    /\ \E i \in 1 .. Len(bars) : annotated.col[i] # 0
    /\ \E i \in 1 .. Len(bars) : annotated.col[i] = 0 /\ types.col[i] # 0

\* ----------------------------------------------------------- SpecIntraday
\* C13: confirmed is true exactly when the OFI of the snapshots is strictly
\* positive; otherwise the one note is the selling-pressure note; exactly one
\* note is recorded; vpin is 0; and daily_res does not change the result
C13_IntradayConfirms ==
    pc = "intraday" =>
        /\ intraday_res[1].ofi = calculate_ofi_l1(ticks)
        /\ intraday_res[1].confirmed <=> calculate_ofi_l1(ticks) > 0
        /\ Len(intraday_res[1].details) = 1
        /\ intraday_res[1].details[1][1] =
             (IF calculate_ofi_l1(ticks) > 0 THEN "OFI Positive - Buying Pressure"
              ELSE "OFI Negative - Selling Pressure")
        /\ Len(ticks) < 2 => ~intraday_res[1].confirmed
        /\ intraday_res[1].vpin = 0
        /\ \A d \in DailyResults : analyze_intraday(ticks, d) = intraday_res[1]

\* two snapshots or more whose OFI is exactly 0, analysed with a Stage 1 result
C13_Witness ==
    /\ pc = "intraday"
    /\ Len(ticks) >= 2
    /\ ticks[2] # ticks[1]
    /\ daily_res # None
    /\ intraday_res[1].ofi = 0
    /\ ~intraday_res[1].confirmed

\* -------------------------------------------------------------- SpecDaily
\* the number of scoring rules that fire
C14_RulesFired(score_rsrs, chip, chan, wave, trend_up) ==
    (IF FLess(<<7, 10>>, score_rsrs) \/ FLess(score_rsrs, <<-7, 10>>) THEN 1 ELSE 0)
    + (IF FLess(<<1, 2>>, chip.profit_ratio) THEN 1 ELSE 0)
    + (IF FLess(chip.concentration, <<15, 100>>) THEN 1 ELSE 0)
    + (IF chan.buy2 THEN 1 ELSE 0)
    + (IF chan.buy3 THEN 1 ELSE 0)
    + (IF wave.is_wave3 THEN 1 ELSE 0)
    + (IF wave.divergence THEN 1 ELSE 0)
    + (IF trend_up THEN 1 ELSE 0)

\* C14: whenever analyze_daily returns a nonzero score the details list is
\* not empty, and the number of reasons equals the number of scoring rules
\* that fired
C14_ReasonPerRule ==
    (pc = "analyzed" /\ Len(df) >= ChipMinBars /\ result # None)
    => /\ result[1].score # 0 => result[1].details # <<>>
       /\ Len(result[1].details)
            = C14_RulesFired(rsrs_score, DailyChip, DailyChan, DailyWave, DailyTrendUp)

\* every session of the retained window has turnover 0
ZeroTurnoverWindow ==
    \A i \in 1 .. Len(df) : i > Len(df) - ChipHistory => df[i].turnover = 0

\* a chip result that earns no points
NeutralChip == [profit_ratio |-> <<0, 1>>, concentration |-> <<1, 1>>]

\* C15: on a frame of at least 100 rows whose window has zero total weight
\* the chip estimate completes with profit ratio 0, and the chip component
\* adds nothing to the score of analyze_daily
C15_ZeroWeightNeutral ==
    (pc = "analyzed" /\ Len(df) >= ChipMinBars /\ ZeroTurnoverWindow)
    => /\ raised = None
       /\ result # None
       /\ DailyChip.profit_ratio = <<0, 1>>
       /\ result[1].chip_profit = <<0, 1>>
       /\ result[1].score
            = C11_Contributions(rsrs_score, NeutralChip, DailyChan, DailyWave, DailyTrendUp)
       /\ \A k \in 1 .. Len(result[1].details) :
            result[1].details[k][1] # "Chip: Highly Concentrated"

\* --------------------------------------------------------------- SpecWave
\* the latest oscillator value, the maximum of the oscillator and of the
\* close over the trailing window, and the latest close of the series given
LastAo == ao(bars, Len(bars))
WindowMaxAo ==
    FMax({ ao(bars, i) : i \in { j \in 1 .. Len(bars) :
                                   j > Len(bars) - WaveWindow /\ j >= AoSlow } })
WindowMaxClose ==
    IntMax({ df[i].close : i \in { j \in 1 .. Len(df) : j > Len(df) - WaveWindow } })
LastClose == df[Len(df)].close
\* a >= b for fractions
FGeq(a, b) == ~FLess(a, b)

\* C16: for a series of at least 50 bars is_wave3 is set exactly when the
\* latest oscillator value is positive and at least 80% of the window maximum,
\* and divergence exactly when the latest close is at least 98% of the window's
\* maximum close and the latest oscillator value is positive and at most 70%
\* of the window maximum, the boundary values included
C16_WaveThresholds ==
    (pc = "waved" /\ Len(bars) >= WaveMinBars) =>
        /\ wave_res[1].is_wave3 =
              (FLess(<<0, 1>>, LastAo) /\ FGeq(LastAo, FMul(WindowMaxAo, <<8, 10>>)))
        /\ wave_res[1].divergence =
              (/\ FGeq(Frac(LastClose, 1), FMul(Frac(WindowMaxClose, 1), <<98, 100>>))
               /\ FLess(<<0, 1>>, LastAo)
               /\ FGeq(FMul(WindowMaxAo, <<7, 10>>), LastAo))

\* --------------------------------------------------------------- SpecRsrs
\* calculate_rsrs with the rolling fit run over the whole series
WholeSeriesFit ==
    IF Len(history) < rsrs_n + 1 THEN [latest |-> <<>>, recent |-> <<>>]
    ELSE rolling_fit(history, rsrs_n, rsrs_m)

C18_DirectionAgrees ==
    pc = "strokes" =>
        \A k \in 1 .. Len(bi_list) :
            /\ bi_list[k].type = DOWN => bi_list[k].end_price < bi_list[k].start_price
            /\ bi_list[k].type = UP => bi_list[k].end_price > bi_list[k].start_price

\* ------------------------------------------------------------ SpecVpinAny
\* the classified volume of the trailing window of buckets
WindowVolume ==
    LET recent == TailBuckets(BucketIds(trades, bucket_volume), window_buckets)
    IN SumOver(recent, [b \in recent |-> BucketTotal(trades, bucket_volume, b)])

C20_Wave3ExcludesDivergence ==
    pc = "waved" =>
        IF "is_wave3" \in DOMAIN wave_res[1]
        THEN /\ ~(wave_res[1].is_wave3 /\ wave_res[1].divergence)
             /\ wave_res[1].is_wave3 <=> (wave_res[1].status = "Bullish")
        ELSE wave_res[1].status # "Bullish"

\* a wave 3 on a close at the window's maximum, where only the oscillator
\* separates it from a divergence
C20_Witness ==
    /\ pc = "waved" /\ Len(bars) >= WaveMinBars
    /\ wave_res[1].is_wave3 /\ wave_res[1].status = "Bullish"
    /\ ~wave_res[1].divergence
    /\ LastClose = WindowMaxClose

\* --------------------------------------------------------------- SpecScan
\* C21: a run of process_worker_task logs in once and never logs out more than
\* once; when it has returned it has logged out exactly once, no exception
\* has left it, and it has returned None if get_stock_daily or analyze_daily
\* raised; run_daily_scan takes every future, and when it has taken them all
\* its results are those of the tasks that returned a dict
C21_LogoutOnceNoPropagation ==
    pc = "scanning" =>
        /\ \A s \in Symbols :
            /\ tasks[s].logouts <= 1 /\ tasks[s].logouts <= tasks[s].logins
            /\ tasks[s].pc = "returned" =>
                /\ tasks[s].logins = 1 /\ tasks[s].logouts = 1
                /\ ~tasks[s].propagated
                /\ tasks[s].e # None => tasks[s].ret = None
        /\ completed = Symbols =>
            /\ Len(scan_results) = Cardinality({ s \in Symbols : tasks[s].ret # None })
            /\ \A s \in Symbols :
                tasks[s].ret # None =>
                    \E k \in 1 .. Len(scan_results) : scan_results[k] = tasks[s].ret[1]

\* a scan that is over, in which analyze_daily raised for one symbol and
\* another symbol's result was collected
C21_Witness ==
    /\ pc = "scanning" /\ completed = Symbols
    /\ \E s \in Symbols :
        /\ tasks[s].e # None /\ tasks[s].df # None /\ tasks[s].logouts = 1
        /\ tasks[s].ret = None
    /\ \E s \in Symbols : tasks[s].ret # None /\ tasks[s].ret[1].symbol = s

====
